---- MODULE Spec2Model ----
(***************************************************************************)
(* Model of scheduler.py, the "smart webhook scheduler".                   *)
(*                                                                         *)
(* One invocation of main() is a sequence of steps, one per I/O event of   *)
(* the code (a read of the wall clock, a read or a write of call_log.json, *)
(* a block of random draws, the HTTP POST).  The wall clock advances       *)
(* independently of the program (Tick), so every datetime.now() of the     *)
(* code reads the clock at the moment its own step runs.                   *)
(*                                                                         *)
(* Probabilities and multipliers are integers in units of 1/10000; a draw  *)
(* of random.random() is an integer u in 0..9999 standing for u/10000.     *)
(* Products are truncated to that unit after each multiplication.          *)
(***************************************************************************)
EXTENDS Integers, Sequences, FiniteSets, TLC

(***************************************************************************)
(* Bounds of the model.                                                    *)
(***************************************************************************)
\* number of invocations of main() in one behaviour
MaxRuns == 3

\* number of invocations of main() in a behaviour where they may overlap
MaxOverlap == 2

\* number of invocations of main() in a behaviour where they take the
\* slots in turn
MaxTurns == 2

\* invocation slots: an invocation runs in a slot; Spec uses one slot only
\* (non-overlapping invocations)
Procs == {1, 2}
Serial == {1}

(***************************************************************************)
(* Configuration (scheduler.py lines 16-28).                               *)
(***************************************************************************)
MAX_CALLS_PER_MONTH == 1800
BUSINESS_START == 9
BUSINESS_END == 17
LUNCH_START == 12
LUNCH_END == 14
\* 0.3, in units of 1/10000
LUNCH_ACTIVITY_REDUCTION == 3000

\* 1.0 in the unit of probabilities and multipliers
Unit == 10000

\* the sampled values of random.random(): 0, just below and at the 10%
\* threshold, the middle, and the largest value below 1
UnitSamples == {0, 999, 1000, 5000, 9999}

Min(a, b) == IF a < b THEN a ELSE b
Max(a, b) == IF a > b THEN a ELSE b

(***************************************************************************)
(* The wall clock: datetime.now(TIMEZONE).  The clock is an index into a   *)
(* sorted list of sampled instants of the Rome calendar.                   *)
(***************************************************************************)
Instant(y, m, d, h) == [year |-> y, month |-> m, day |-> d, hour |-> h]

Instants ==
  << Instant(2024, 4, 30, 10),   \* Tuesday, mid-morning
     Instant(2024, 4, 30, 23),   \* Tuesday, last hour of April
     Instant(2024, 5, 1, 0),     \* Wednesday, first hour of May
     Instant(2024, 5, 3, 12),    \* Friday, lunch
     Instant(2024, 5, 4, 10),    \* Saturday
     Instant(2024, 5, 6, 16),    \* Monday of ISO week 19
     Instant(2024, 5, 13, 16),   \* Monday, last business hour
     Instant(2024, 5, 13, 17),   \* Monday, first hour after business
     Instant(2024, 7, 31, 10),   \* Wednesday of ISO week 31
     Instant(2024, 8, 1, 10),    \* Thursday of ISO week 31, in August
     Instant(2024, 8, 3, 10),    \* Saturday in August
     Instant(2024, 12, 2, 10),   \* Monday of ISO week 49
     Instant(2024, 12, 20, 10),  \* Friday, first day of the Christmas window
     Instant(2025, 1, 7, 10) >>  \* Tuesday, first day after the window

NoInstant == Instant(0, 0, 0, 0)

IsLeap(y) == (y % 4 = 0 /\ y % 100 # 0) \/ y % 400 = 0

DaysBeforeMonth(y, m) ==
  LET cum == <<0, 31, 59, 90, 120, 151, 181, 212, 243, 273, 304, 334>>
  IN  cum[m] + (IF m > 2 /\ IsLeap(y) THEN 1 ELSE 0)

DaysInMonth(y, m) ==
  IF m = 12 THEN 31 ELSE DaysBeforeMonth(y, m + 1) - DaysBeforeMonth(y, m)

\* instant j is the hour that follows instant i
NextHour(i, j) ==
  \/ /\ i.year = j.year /\ i.month = j.month /\ i.day = j.day
     /\ j.hour = i.hour + 1
  \/ /\ i.hour = 23 /\ j.hour = 0
     /\ \/ i.year = j.year /\ i.month = j.month /\ j.day = i.day + 1
        \/ /\ i.day = DaysInMonth(i.year, i.month) /\ j.day = 1
           /\ \/ i.year = j.year /\ j.month = i.month + 1
              \/ j.year = i.year + 1 /\ i.month = 12 /\ j.month = 1

\* weekday of January 1st, Monday = 0 .. Sunday = 6
Jan1Weekday(y) ==
  LET g == (1 + 5 * ((y - 1) % 4) + 4 * ((y - 1) % 100) + 6 * ((y - 1) % 400)) % 7
  IN  (g + 6) % 7

\* datetime.weekday(): Monday = 0 .. Sunday = 6
Weekday(now) ==
  (Jan1Weekday(now.year) + DaysBeforeMonth(now.year, now.month) + now.day - 1) % 7

\* number of ISO weeks of a year: 53 when January 1st is a Thursday, or a
\* Wednesday in a leap year
IsoWeeksInYear(y) ==
  IF Jan1Weekday(y) = 3 \/ (IsLeap(y) /\ Jan1Weekday(y) = 2) THEN 53 ELSE 52

\* now.isocalendar()[1]: the ISO 8601 week number
IsoWeek(now) ==
  LET ordinal == DaysBeforeMonth(now.year, now.month) + now.day
      w == (ordinal - (Weekday(now) + 1) + 10) \div 7
  IN  IF w < 1 THEN IsoWeeksInYear(now.year - 1)
      ELSE IF w > IsoWeeksInYear(now.year) THEN 1
      ELSE w

\* month tokens: strftime('%Y-%m'); None is NullMonth, a missing key is
\* MissingMonth
MonthToken(y, m) == <<y, m>>
NullMonth == <<0, 0>>
MissingMonth == <<-1, -1>>

\* get_current_month()
get_current_month(now) == MonthToken(now.year, now.month)

\* random.uniform(a, b) == a + (b - a) * random.random()
Uniform(a, b, u) == a + ((b - a) * u) \div Unit

(***************************************************************************)
(* The shared generator of the random module.  Its state is the seed it    *)
(* was last given and the number of draws made since; a generator that was *)
(* never seeded by the program holds the seed the operating system gave    *)
(* it, and its draws are arbitrary.                                        *)
(***************************************************************************)
Rng(k, n) == [key |-> k, pos |-> n]
NoKey == <<0, 0>>
Unseeded == Rng(NoKey, 0)

\* variant: the generator is left as the operating system seeded it
seed_not_applied(now) == Unseeded

\* random.seed(f"{now.year}-{week_number}"), lines 65-66
seed(now) == Rng(<<now.year, IsoWeek(now)>>, 0)

\* the first draws of random.random() after random.seed("<year>-<week>"),
\* as CPython computes them (seed version 2, Mersenne Twister), truncated
\* to the unit
SeededStream(key) ==
  CASE key = <<2024, 18>> ->
         <<2564, 2443, 7848, 7841, 5291, 2374, 6953, 9732, 6696, 8336, 3509, 513, 3338>>
    [] key = <<2024, 19>> ->
         <<810, 6185, 547, 1204, 4223, 4480, 246, 9889, 1645, 2149, 7853, 5547, 2580>>
    [] key = <<2024, 20>> ->
         <<1984, 7397, 1417, 6807, 9159, 2810, 7868, 7938, 166, 7407, 9010, 3969, 1077>>
    [] key = <<2024, 31>> ->
         <<6699, 9617, 7484, 132, 5878, 4092, 8777, 9865, 975, 563, 5116, 8877, 8824>>
    [] key = <<2024, 49>> ->
         <<4229, 9812, 38, 1477, 7431, 7581, 8058, 9411, 3499, 3757, 348, 8425, 2785>>
    [] key = <<2025, 2>> ->
         <<5294, 5512, 1939, 9644, 516, 5833, 2534, 9090, 3936, 668, 4316, 2327, 5535>>

\* the values the i-th next call of random.random() can return
Draws(rng, i) ==
  IF rng.key = NoKey THEN UnitSamples
  ELSE {SeededStream(rng.key)[rng.pos + i]}

\* the generator after n more draws
Advance(rng, n) ==
  IF rng.key = NoKey THEN rng ELSE Rng(rng.key, rng.pos + n)

(***************************************************************************)
(* Calendar gate.                                                          *)
(***************************************************************************)
\* lines 57-62: August, or December 20 to January 6
fixed_vacation(now) ==
  \/ now.month = 8
  \/ (now.month = 12 /\ now.day >= 20) \/ (now.month = 1 /\ now.day <= 6)

\* u is the first random.random() after random.seed(f"{year}-{week}")
is_vacation_period(now, u) ==
  IF fixed_vacation(now) THEN TRUE ELSE u < 1000

\* variant: the hour test of line 83 is missing
is_business_hours_any_hour(now) == Weekday(now) < 5

\* variant: the weekend test written "> 5", which lets Saturday through
is_business_hours_sunday_only(now) ==
  IF Weekday(now) > 5 THEN FALSE
  ELSE BUSINESS_START <= now.hour /\ now.hour < BUSINESS_END

is_business_hours(now) ==
  IF Weekday(now) >= 5 THEN FALSE
  ELSE BUSINESS_START <= now.hour /\ now.hour < BUSINESS_END

get_day_activity_multiplier(now, u) ==
  LET day == Weekday(now)
      multiplier == IF day = 0 THEN 8500 + Uniform(-500, 1000, u)
                    ELSE IF day = 4 THEN 9000 + Uniform(-1000, 1000, u)
                    ELSE Unit + Uniform(-500, 500, u)
  IN  Max(7000, Min(multiplier, 10500))

get_lunch_multiplier(now, u) ==
  IF LUNCH_START <= now.hour /\ now.hour < LUNCH_END
  THEN LET base_reduction == LUNCH_ACTIVITY_REDUCTION + Uniform(-1500, 1000, u)
       IN  Unit - Max(1000, Min(base_reduction, 5000))
  ELSE Unit

(***************************************************************************)
(* Stochastic gate.                                                        *)
(***************************************************************************)
should_skip_day(u1, u2) ==
  LET skip_chance == Uniform(200, 500, u1)
  IN  u2 < skip_chance

should_skip_hour(now, u1, u2) ==
  LET hour == now.hour
      base_skip == IF 9 <= hour /\ hour < 10 THEN 500
                   ELSE IF 10 <= hour /\ hour < 12 THEN 800
                   ELSE IF 12 <= hour /\ hour < 14 THEN 2500
                   ELSE IF 14 <= hour /\ hour < 16 THEN 1000
                   ELSE 1500
      skip_chance == Max(0, Min(base_skip + Uniform(-300, 500, u1), 4000))
  IN  u2 < skip_chance

\* lines 198-204: ub draws the base probability, um the micro-break
final_probability(day_mult, lunch_mult, ub, um) ==
  LET base_probability == Uniform(8500, 9800, ub)
      p == (((base_probability * day_mult) \div Unit) * lunch_mult) \div Unit
  IN  IF um < 500 THEN (p * 3) \div 10 ELSE p

\* lines 208-210: TRUE when the final draw uf rejects
execution_skip(day_mult, lunch_mult, ub, um, uf) ==
  uf > final_probability(day_mult, lunch_mult, ub, um)

(***************************************************************************)
(* Jitter generator (lines 215-231), in seconds.                           *)
(***************************************************************************)
\* random.expovariate(1/180) == -180 * ln(1 - random.random()), truncated
\* to a second, tabulated on the sampled draws and on the seeded draws that
\* reach it
expovariate180(u) ==
  CASE u = 0 -> 0
    [] u = 999 -> 18
    [] u = 1000 -> 18
    [] u = 5000 -> 124
    [] u = 9999 -> 1657
    [] u = 513 -> 9
    [] u = 3338 -> 73
    [] u = 5547 -> 145
    [] u = 2580 -> 53
    [] u = 3969 -> 91
    [] u = 1077 -> 20
    [] u = 8877 -> 393
    [] u = 8824 -> 385
    [] u = 8425 -> 332
    [] u = 2785 -> 58
    [] u = 2327 -> 47
    [] u = 5535 -> 145

\* the number of draws add_human_jitter makes: the quick branch draws
\* twice, the other two three times
jitter_draws(u1) == IF u1 < 1500 THEN 2 ELSE 3

\* the number of draws get_lunch_multiplier makes
lunch_draws(now) == IF LUNCH_START <= now.hour /\ now.hour < LUNCH_END THEN 1 ELSE 0

\* variant: the cap of line 225 is missing
human_jitter_uncapped(u1, u2, u3) ==
  IF u1 < 1500 THEN Uniform(0, 60, u2)
  ELSE IF u2 < 7000 THEN expovariate180(u3)
  ELSE Uniform(300, 900, u3)

human_jitter(u1, u2, u3) ==
  IF u1 < 1500 THEN Uniform(0, 60, u2)
  ELSE IF u2 < 7000 THEN Min(expovariate180(u3), 600)
  ELSE Uniform(300, 900, u3)

(***************************************************************************)
(* The persisted counter store: call_log.json.                             *)
(***************************************************************************)
\* log['count'] of a record without that key
MissingCount == -1

\* the dict held in memory: a missing 'last_call' key is NoInstant
Log(m, c, l) == [month |-> m, count |-> c, last_call |-> l]
DefaultLog == Log(NullMonth, 0, NoInstant)

\* the file: absent, a JSON record, unparseable content ("corrupt"), or
\* the empty content left by open(CALL_LOG_FILE, 'w') ("empty")
File(k, m, c, l) == [kind |-> k, month |-> m, count |-> c, last_call |-> l]
Absent == File("absent", NullMonth, 0, NoInstant)
Corrupt == File("corrupt", NullMonth, 0, NoInstant)
Empty == File("empty", NullMonth, 0, NoInstant)
Record(m, c, l) == File("record", m, c, l)

Unparseable(f) == f.kind \in {"corrupt", "empty"}

\* variant: a parse error is swallowed and the default record returned
load_call_log_default_on_error(f) ==
  IF f.kind = "absent" \/ Unparseable(f) THEN [ok |-> TRUE, log |-> DefaultLog]
  ELSE [ok |-> TRUE, log |-> Log(f.month, f.count, f.last_call)]

\* load_call_log(): ok is FALSE when json.load raises
load_call_log(f) ==
  IF f.kind = "absent" THEN [ok |-> TRUE, log |-> DefaultLog]
  ELSE IF Unparseable(f) THEN [ok |-> FALSE, log |-> DefaultLog]
  ELSE [ok |-> TRUE, log |-> Log(f.month, f.count, f.last_call)]

\* json.dump(log, f, indent=2): the content of the file after the dump
dump(log) == Record(log.month, log.count, log.last_call)

\* variant: the limit test written with ">"
budget_exhausted_strict(count) == count > MAX_CALLS_PER_MONTH

\* line 169
budget_exhausted(count) == count >= MAX_CALLS_PER_MONTH

\* variant: the counter is reset on the first run only
month_changed_none_only(log_month, current_month) == log_month = NullMonth

\* line 163
month_changed(log_month, current_month) == log_month # current_month

(***************************************************************************)
(* The outbound call: what requests.post(..., timeout=30) can come back    *)
(* with.                                                                   *)
(***************************************************************************)
Response(k, s) == [kind |-> k, status |-> s]
NoResponse == Response("none", 0)
Responses ==
  {Response("timeout", 0), Response("connection_error", 0)}
    \cup {Response("http", s) : s \in {200, 204, 304, 404, 500}}

\* requests.post raised, or response.raise_for_status() raised (4xx, 5xx):
\* the RequestException caught at line 270
raises_request_exception(r) == r.kind # "http" \/ r.status >= 400

\* a success status: 2xx
Is2xx(r) == r.kind = "http" /\ r.status >= 200 /\ r.status < 300

(***************************************************************************)
(* State.                                                                  *)
(***************************************************************************)
VARIABLES
  clock,    \* index of the current instant in Instants
  file,     \* content of call_log.json
  runs,     \* number of invocations of main() started so far
  loc,      \* per slot: position and local variables of the invocation
  obs,      \* per slot: what the invocation has done so far (history)
  resets,   \* month tokens of the reset writes completed so far (history)
  base,     \* count in the file at the start or after the last reset (history)
  posted    \* POSTs answered with a 2xx status since then (history)

vars == <<clock, file, runs, loc, obs, resets, base, posted>>

Now == Instants[clock]

\* the locals of main, should_execute, add_human_jitter and call_webhook;
\* a local is back to its initial value once its function has returned.
\* url and rng belong to the process: the setting read at import and the
\* generator of the random module
InitLoc ==
  [pc |-> "idle", url |-> FALSE, rng |-> Unseeded, log |-> DefaultLog,
   current_month |-> NullMonth, day_mult |-> 0, lunch_mult |-> 0,
   timestamp |-> NoInstant, jitter |-> 0]

\* the jitter of an invocation that computed none
NoJitter == -1

InitObs ==
  [outcome |-> "none", reason |-> "none", trace |-> <<>>, call |-> "none",
   url |-> FALSE, posts |-> 0, waited |-> FALSE, response |-> NoResponse,
   t0 |-> 0, atStart |-> Absent, stored |-> DefaultLog,
   current_month |-> NullMonth, step1 |-> FALSE, afterStep1 |-> Absent,
   beforeCall |-> Absent, writes |-> <<>>, timestamp |-> NoInstant,
   jitter |-> NoJitter]

\* the month before the month of an instant
PrevMonth(now) ==
  IF now.month = 1 THEN MonthToken(now.year - 1, 12)
  ELSE MonthToken(now.year, now.month - 1)

\* the files an invocation can find when the model starts at instant i
InitFiles(i) ==
  LET cur == get_current_month(Instants[i])
      old == PrevMonth(Instants[i])
  IN  {Absent, Corrupt}
        \cup {Record(cur, c, NoInstant) :
                c \in {0, MAX_CALLS_PER_MONTH - 1, MAX_CALLS_PER_MONTH}}
        \cup {Record(old, c, NoInstant) : c \in {MAX_CALLS_PER_MONTH, MissingCount}}
        \cup {Record(MissingMonth, 0, NoInstant), Record(cur, MissingCount, NoInstant)}

Init ==
  /\ clock \in 1..Len(Instants)
  /\ file \in InitFiles(clock)
  /\ runs = 0
  /\ loc = [p \in Procs |-> InitLoc]
  /\ obs = [p \in Procs |-> InitObs]
  /\ resets = <<>>
  /\ base = IF file.kind = "record" THEN file.count ELSE 0
  /\ posted = 0

Running(p) == loc[p].pc \notin {"idle", "done", "crashed", "killed"}

\* a function returns or raises: its locals are gone, the environment
\* stays; "done" is the end of main, "crashed" an uncaught exception
Unwind(l, how) == [InitLoc EXCEPT !.pc = how, !.url = l.url, !.rng = l.rng]

Crash(p) ==
  /\ loc' = [loc EXCEPT ![p] = Unwind(@, "crashed")]
  /\ UNCHANGED <<clock, file, runs, obs, resets, base, posted>>

\* variant: main calls call_webhook() whatever should_execute() returned
main_next_pc_always_call(accepted) == "cw_url"

\* lines 296-300 of main: call_webhook() on True, the end of main on False
main_next_pc(accepted) == IF accepted THEN "cw_url" ELSE "done"

\* should_execute returns to main
Return(l, accepted) == Unwind(l, main_next_pc(accepted))

\* a check of should_execute failed: print the reason, return False
Reject(p, check, why, rng) ==
  /\ loc' = [loc EXCEPT ![p] = Return([@ EXCEPT !.rng = rng], FALSE)]
  /\ obs' = [obs EXCEPT ![p].trace = Append(@, <<check, FALSE, clock>>),
                        ![p].outcome = "REJECT",
                        ![p].reason = why]
  /\ UNCHANGED <<clock, file, runs, resets, base, posted>>

\* a check of should_execute passed: go on with the next one
Pass(p, check, next, rng) ==
  /\ loc' = [loc EXCEPT ![p].pc = next, ![p].rng = rng]
  /\ obs' = [obs EXCEPT ![p].trace = Append(@, <<check, TRUE, clock>>)]
  /\ UNCHANGED <<clock, file, runs, resets, base, posted>>

(***************************************************************************)
(* The environment.                                                        *)
(***************************************************************************)
\* time passes between two invocations
Tick ==
  /\ clock < Len(Instants)
  /\ \A p \in Procs : ~Running(p)
  /\ clock' = clock + 1
  /\ UNCHANGED <<file, runs, loc, obs, resets, base, posted>>

\* the hour changes while an invocation runs: an invocation (at most 900 s
\* of jitter and 30 s of timeout) is over before the hour changes twice
TickDuringRun ==
  /\ clock < Len(Instants)
  /\ \E p \in Procs : Running(p) /\ obs[p].t0 = clock
  /\ NextHour(Instants[clock], Instants[clock + 1])
  /\ clock' = clock + 1
  /\ UNCHANGED <<file, runs, loc, obs, resets, base, posted>>

\* the external scheduler starts main() when no invocation is running;
\* N8N_WEBHOOK_URL is read from the environment at import (line 16)
Start(p) ==
  /\ runs < MaxRuns
  /\ \A q \in Procs : ~Running(q)
  /\ \E u \in BOOLEAN :
       /\ loc' = [loc EXCEPT ![p] = [InitLoc EXCEPT !.pc = "main_load", !.url = u]]
       /\ obs' = [obs EXCEPT ![p] = [InitObs EXCEPT !.t0 = clock, !.url = u,
                                                    !.atStart = file]]
  /\ runs' = runs + 1
  /\ UNCHANGED <<clock, file, resets, base, posted>>

(***************************************************************************)
(* main(), lines 285-291: load the log to print the statistics.            *)
(***************************************************************************)
MainLoad(p) ==
  /\ loc[p].pc = "main_load"
  /\ LET r == load_call_log(file)
         current_month == get_current_month(Now)
     IN  IF ~r.ok THEN Crash(p)
         ELSE IF r.log.month = MissingMonth THEN Crash(p)
         ELSE IF r.log.month = current_month /\ r.log.count = MissingCount
              THEN Crash(p)
         ELSE /\ loc' = [loc EXCEPT ![p].pc = "se_load"]
              /\ UNCHANGED <<clock, file, runs, obs, resets, base, posted>>

(***************************************************************************)
(* should_execute(), step 1 (lines 159-166).                               *)
(***************************************************************************)
SeLoad(p) ==
  /\ loc[p].pc = "se_load"
  /\ LET r == load_call_log(file)
     IN  IF ~r.ok THEN Crash(p)
         ELSE /\ loc' = [loc EXCEPT ![p].pc = "se_reset",
                                    ![p].log = r.log,
                                    ![p].current_month = get_current_month(Now)]
              /\ obs' = [obs EXCEPT ![p].stored = r.log,
                                    ![p].current_month = get_current_month(Now)]
              /\ UNCHANGED <<clock, file, runs, resets, base, posted>>

\* variant: save_call_log is called whether the month changed or not
SeReset_always_saves(p) ==
  /\ loc[p].pc = "se_reset"
  /\ LET log == loc[p].log
     IN  IF log.month = MissingMonth THEN Crash(p)
         ELSE /\ loc' = [loc EXCEPT ![p].pc = "se_save_open",
                                    ![p].log =
                                      IF month_changed(log.month, loc[p].current_month)
                                      THEN Log(loc[p].current_month, 0, log.last_call)
                                      ELSE log]
              /\ UNCHANGED <<clock, file, runs, obs, resets, base, posted>>

SeReset(p) ==
  /\ loc[p].pc = "se_reset"
  /\ LET log == loc[p].log
     IN  IF log.month = MissingMonth THEN Crash(p)
         ELSE IF month_changed(log.month, loc[p].current_month)
         THEN /\ loc' = [loc EXCEPT ![p].pc = "se_save_open",
                                    ![p].log = Log(loc[p].current_month, 0,
                                                   log.last_call)]
              /\ UNCHANGED <<clock, file, runs, obs, resets, base, posted>>
         ELSE /\ loc' = [loc EXCEPT ![p].pc = "se_budget"]
              /\ obs' = [obs EXCEPT ![p].step1 = TRUE, ![p].afterStep1 = file]
              /\ UNCHANGED <<clock, file, runs, resets, base, posted>>

(***************************************************************************)
(* save_call_log(log), lines 39-42: open(..., 'w') truncates the file,     *)
(* json.dump then writes the record.                                       *)
(***************************************************************************)
SaveOpen(p) ==
  /\ loc[p].pc \in {"se_save_open", "cw_save_open"}
  /\ file' = Empty
  /\ loc' = [loc EXCEPT ![p].pc = IF @ = "se_save_open" THEN "se_save_dump"
                                  ELSE "cw_save_dump"]
  /\ UNCHANGED <<clock, runs, obs, resets, base, posted>>

SaveDump(p) ==
  /\ loc[p].pc \in {"se_save_dump", "cw_save_dump"}
  /\ file' = dump(loc[p].log)
  /\ IF loc[p].pc = "se_save_dump"
     THEN /\ loc' = [loc EXCEPT ![p].pc = "se_budget"]
          /\ obs' = [obs EXCEPT ![p].step1 = TRUE,
                                ![p].afterStep1 = file',
                                ![p].writes = Append(@, "reset")]
          /\ resets' = Append(resets, loc[p].log.month)
          /\ base' = 0
          /\ posted' = 0
     ELSE /\ loc' = [loc EXCEPT ![p] = Unwind(@, "done")]
          /\ obs' = [obs EXCEPT ![p].call = "ok",
                                ![p].writes = Append(@, "increment")]
          /\ UNCHANGED <<resets, base, posted>>
  /\ UNCHANGED <<clock, runs>>

(***************************************************************************)
(* should_execute(), the checks (lines 168-212).                           *)
(***************************************************************************)
\* variant: the vacation check is left out of the chain
SeBudget_no_vacation_check(p) ==
  /\ loc[p].pc = "se_budget"
  /\ IF loc[p].log.count = MissingCount THEN Crash(p)
     ELSE IF budget_exhausted(loc[p].log.count)
          THEN Reject(p, "budget", "monthly_limit", loc[p].rng)
          ELSE Pass(p, "budget", "se_business_hours", loc[p].rng)

SeBudget(p) ==
  /\ loc[p].pc = "se_budget"
  /\ IF loc[p].log.count = MissingCount THEN Crash(p)
     ELSE IF budget_exhausted(loc[p].log.count)
          THEN Reject(p, "budget", "monthly_limit", loc[p].rng)
          ELSE Pass(p, "budget", "se_vacation", loc[p].rng)

\* lines 174-176; is_vacation_period seeds the generator and draws once
\* when the date is outside August and the Christmas window
SeVacation(p) ==
  /\ loc[p].pc = "se_vacation"
  /\ IF fixed_vacation(Now)
     THEN Reject(p, "vacation", "vacation", loc[p].rng)
     ELSE \E u \in Draws(seed(Now), 1) :
            IF is_vacation_period(Now, u)
            THEN Reject(p, "vacation", "vacation", Advance(seed(Now), 1))
            ELSE Pass(p, "vacation", "se_business_hours", Advance(seed(Now), 1))

SeBusinessHours(p) ==
  /\ loc[p].pc = "se_business_hours"
  /\ IF ~is_business_hours(Now)
     THEN Reject(p, "business_hours", "outside_business_hours", loc[p].rng)
     ELSE Pass(p, "business_hours", "se_skip_day", loc[p].rng)

SeSkipDay(p) ==
  /\ loc[p].pc = "se_skip_day"
  /\ \E u1 \in Draws(loc[p].rng, 1), u2 \in Draws(loc[p].rng, 2) :
       IF should_skip_day(u1, u2)
       THEN Reject(p, "day_skip", "day_skip", Advance(loc[p].rng, 2))
       ELSE Pass(p, "day_skip", "se_skip_hour", Advance(loc[p].rng, 2))

SeSkipHour(p) ==
  /\ loc[p].pc = "se_skip_hour"
  /\ \E u1 \in Draws(loc[p].rng, 1), u2 \in Draws(loc[p].rng, 2) :
       IF should_skip_hour(Now, u1, u2)
       THEN Reject(p, "hour_skip", "hour_skip", Advance(loc[p].rng, 2))
       ELSE Pass(p, "hour_skip", "se_day_mult", Advance(loc[p].rng, 2))

\* line 194
SeDayMult(p) ==
  /\ loc[p].pc = "se_day_mult"
  /\ \E u \in Draws(loc[p].rng, 1) :
       loc' = [loc EXCEPT ![p].pc = "se_lunch_mult",
                          ![p].rng = Advance(@, 1),
                          ![p].day_mult = get_day_activity_multiplier(Now, u)]
  /\ UNCHANGED <<clock, file, runs, obs, resets, base, posted>>

\* line 195; no draw is made outside the lunch window
SeLunchMult(p) ==
  /\ loc[p].pc = "se_lunch_mult"
  /\ \E u \in Draws(loc[p].rng, 1) :
       loc' = [loc EXCEPT ![p].pc = "se_final_draw",
                          ![p].rng = Advance(@, lunch_draws(Now)),
                          ![p].lunch_mult = get_lunch_multiplier(Now, u)]
  /\ UNCHANGED <<clock, file, runs, obs, resets, base, posted>>

\* lines 198-212
SeFinalDraw(p) ==
  /\ loc[p].pc = "se_final_draw"
  /\ \E ub \in Draws(loc[p].rng, 1), um \in Draws(loc[p].rng, 2),
        uf \in Draws(loc[p].rng, 3) :
       IF execution_skip(loc[p].day_mult, loc[p].lunch_mult, ub, um, uf)
       THEN Reject(p, "final_draw", "execution_skip", Advance(loc[p].rng, 3))
       ELSE /\ loc' = [loc EXCEPT ![p] =
                         Return([@ EXCEPT !.rng = Advance(@, 3)], TRUE)]
            /\ obs' = [obs EXCEPT ![p].trace = Append(@, <<"final_draw", TRUE, clock>>),
                                  ![p].outcome = "ACCEPT"]
            /\ UNCHANGED <<clock, file, runs, resets, base, posted>>

(***************************************************************************)
(* call_webhook(), lines 234-272.                                          *)
(***************************************************************************)
\* variant: the "return False" of line 238 is missing
CwCheckUrl_no_return(p) ==
  /\ loc[p].pc = "cw_url"
  /\ loc' = [loc EXCEPT ![p].pc = "cw_jitter", ![p].timestamp = Now]
  /\ obs' = IF ~loc[p].url THEN [obs EXCEPT ![p].call = "no_url"]
            ELSE [obs EXCEPT ![p].timestamp = Now]
  /\ UNCHANGED <<clock, file, runs, resets, base, posted>>

\* lines 236-242
CwCheckUrl(p) ==
  /\ loc[p].pc = "cw_url"
  /\ IF ~loc[p].url
     THEN /\ loc' = [loc EXCEPT ![p] = Unwind(@, "done")]
          /\ obs' = [obs EXCEPT ![p].call = "no_url"]
     ELSE /\ loc' = [loc EXCEPT ![p].pc = "cw_jitter", ![p].timestamp = Now]
          /\ obs' = [obs EXCEPT ![p].timestamp = Now]
  /\ UNCHANGED <<clock, file, runs, resets, base, posted>>

\* line 245, add_human_jitter() lines 221-230: the delay is computed
CwJitter(p) ==
  /\ loc[p].pc = "cw_jitter"
  /\ \E u1 \in Draws(loc[p].rng, 1), u2 \in Draws(loc[p].rng, 2),
        u3 \in Draws(loc[p].rng, 3) :
       /\ loc' = [loc EXCEPT ![p].pc = "cw_sleep",
                             ![p].rng = Advance(@, jitter_draws(u1)),
                             ![p].jitter = human_jitter(u1, u2, u3)]
       /\ obs' = [obs EXCEPT ![p].jitter = human_jitter(u1, u2, u3)]
  /\ UNCHANGED <<clock, file, runs, resets, base, posted>>

\* line 231: time.sleep(jitter) is over
CwSleep(p) ==
  /\ loc[p].pc = "cw_sleep"
  /\ loc' = [loc EXCEPT ![p].pc = "cw_post", ![p].jitter = 0]
  /\ obs' = [obs EXCEPT ![p].waited = TRUE]
  /\ UNCHANGED <<clock, file, runs, resets, base, posted>>

\* lines 248-258 and 270-272: the POST and raise_for_status()
CwPost(p) ==
  /\ loc[p].pc = "cw_post"
  /\ \E r \in Responses :
       /\ obs' = [obs EXCEPT ![p].posts = @ + 1,
                             ![p].response = r,
                             ![p].beforeCall = file,
                             ![p].call = IF raises_request_exception(r)
                                         THEN "failed" ELSE @]
       /\ loc' = [loc EXCEPT ![p] = IF raises_request_exception(r)
                                    THEN Unwind(@, "done")
                                    ELSE [@ EXCEPT !.pc = "cw_load"]]
       /\ posted' = IF Is2xx(r) THEN posted + 1 ELSE posted
  /\ UNCHANGED <<clock, file, runs, resets, base>>

\* variant: line 263 is missing, last_call is left as it was loaded
CwLoad_keeps_last_call(p) ==
  /\ loc[p].pc = "cw_load"
  /\ LET r == load_call_log(file)
     IN  IF ~r.ok \/ r.log.count = MissingCount THEN Crash(p)
         ELSE /\ loc' = [loc EXCEPT ![p].pc = "cw_save_open",
                                    ![p].log = Log(r.log.month, r.log.count + 1,
                                                   r.log.last_call)]
              /\ UNCHANGED <<clock, file, runs, obs, resets, base, posted>>

\* lines 261-263; the save of line 264 follows
CwLoad(p) ==
  /\ loc[p].pc = "cw_load"
  /\ LET r == load_call_log(file)
     IN  IF ~r.ok \/ r.log.count = MissingCount THEN Crash(p)
         ELSE /\ loc' = [loc EXCEPT ![p].pc = "cw_save_open",
                                    ![p].log = Log(r.log.month, r.log.count + 1,
                                                   loc[p].timestamp)]
              /\ UNCHANGED <<clock, file, runs, obs, resets, base, posted>>

(***************************************************************************)
(* Specification: invocations that do not overlap.                         *)
(***************************************************************************)
\* one step of the invocation of slot p
Step(p) ==
  \/ MainLoad(p)
  \/ SeLoad(p)
  \/ SeReset(p)
  \/ SaveOpen(p)
  \/ SaveDump(p)
  \/ SeBudget(p)
  \/ SeVacation(p)
  \/ SeBusinessHours(p)
  \/ SeSkipDay(p)
  \/ SeSkipHour(p)
  \/ SeDayMult(p)
  \/ SeLunchMult(p)
  \/ SeFinalDraw(p)
  \/ CwCheckUrl(p)
  \/ CwJitter(p)
  \/ CwSleep(p)
  \/ CwPost(p)
  \/ CwLoad(p)

Next ==
  \/ Tick
  \/ TickDuringRun
  \/ \E p \in Serial : Start(p) \/ Step(p)

Spec == Init /\ [][Next]_vars

(***************************************************************************)
(* Specification: the process can be killed at any point of an invocation  *)
(* (an external timeout, SIGKILL); nothing of the process runs after that. *)
(***************************************************************************)
Kill(p) ==
  /\ Running(p)
  /\ loc' = [loc EXCEPT ![p] = Unwind(@, "killed")]
  /\ UNCHANGED <<clock, file, runs, obs, resets, base, posted>>

NextKill ==
  \/ Next
  \/ \E p \in Serial : Kill(p)

SpecKill == Init /\ [][NextKill]_vars

(***************************************************************************)
(* Specification: the external scheduler starts an invocation while        *)
(* another one is still running (it sleeps in its jitter, or waits for the *)
(* POST); nothing in the code excludes it.  The invocations take the slots *)
(* in the order in which they start.                                       *)
(***************************************************************************)
StartOverlapping(p) ==
  /\ p = runs + 1
  /\ runs < MaxOverlap
  /\ \E u \in BOOLEAN :
       /\ loc' = [loc EXCEPT ![p] = [InitLoc EXCEPT !.pc = "main_load", !.url = u]]
       /\ obs' = [obs EXCEPT ![p] = [InitObs EXCEPT !.t0 = clock, !.url = u,
                                                    !.atStart = file]]
  /\ runs' = runs + 1
  /\ UNCHANGED <<clock, file, resets, base, posted>>

NextOverlap ==
  \/ Tick
  \/ TickDuringRun
  \/ \E p \in Procs : StartOverlapping(p) \/ Step(p)

SpecOverlap == Init /\ [][NextOverlap]_vars

(***************************************************************************)
(* Specification: add_human_jitter() called on a generator the program has *)
(* not seeded, so that its draws are arbitrary.                            *)
(***************************************************************************)
InitJitter ==
  /\ clock \in 1..Len(Instants)
  /\ file \in InitFiles(clock)
  /\ runs = 1
  /\ loc = [p \in Procs |->
             IF p \in Serial
             THEN [InitLoc EXCEPT !.pc = "cw_jitter", !.url = TRUE, !.timestamp = Now]
             ELSE InitLoc]
  /\ obs = [p \in Procs |->
             IF p \in Serial
             THEN [InitObs EXCEPT !.t0 = clock, !.url = TRUE, !.atStart = file,
                                  !.timestamp = Now]
             ELSE InitObs]
  /\ resets = <<>>
  /\ base = IF file.kind = "record" THEN file.count ELSE 0
  /\ posted = 0

NextJitter == \E p \in Serial : CwJitter(p) \/ CwSleep(p)

SpecJitter == InitJitter /\ [][NextJitter]_vars

(***************************************************************************)
(* Specification: non-overlapping invocations that take the slots in turn, *)
(* so that what an invocation did is still there when the next one runs.   *)
(***************************************************************************)
StartInTurn(p) ==
  /\ runs < MaxTurns
  /\ p = (runs % Cardinality(Procs)) + 1
  /\ Start(p)

NextInTurn ==
  \/ Tick
  \/ TickDuringRun
  \/ \E p \in Procs : StartInTurn(p) \/ Step(p)

SpecInTurn == Init /\ [][NextInTurn]_vars

(***************************************************************************)
(* Properties.                                                             *)
(***************************************************************************)
CheckOrder ==
  <<"budget", "vacation", "business_hours", "day_skip", "hour_skip", "final_draw">>

ReasonOf(check) ==
  CASE check = "budget" -> "monthly_limit"
    [] check = "vacation" -> "vacation"
    [] check = "business_hours" -> "outside_business_hours"
    [] check = "day_skip" -> "day_skip"
    [] check = "hour_skip" -> "hour_skip"
    [] check = "final_draw" -> "execution_skip"

Wrote(p, what) == \E i \in DOMAIN obs[p].writes : obs[p].writes[i] = what

\* the invocation of slot p started at the current instant, a Saturday
SaturdayRun(p) == obs[p].t0 = clock /\ Weekday(Now) = 5

\* C1: when the stored month is the current month token, the budget check
\* is decided by the stored count alone: count >= 1800 rejects with the
\* monthly-limit reason at the first check, count < 1800 passes the budget
\* check and the monthly-limit reason is never given.
C1_BudgetDecidedByCount ==
  \A p \in Procs :
    (/\ obs[p].step1
     /\ loc[p].pc # "se_budget"
     /\ obs[p].stored.month = obs[p].current_month
     /\ obs[p].stored.count # MissingCount)
    => IF obs[p].stored.count >= MAX_CALLS_PER_MONTH
       THEN /\ obs[p].outcome = "REJECT"
            /\ obs[p].reason = "monthly_limit"
            /\ Len(obs[p].trace) = 1
            /\ obs[p].trace[1][1] = "budget" /\ ~obs[p].trace[1][2]
       ELSE /\ obs[p].reason # "monthly_limit"
            /\ obs[p].trace # <<>>
            /\ obs[p].trace[1][1] = "budget" /\ obs[p].trace[1][2]

\* a full counter of the current month is rejected during business hours
C1_Witness ==
  \E p \in Procs :
    /\ obs[p].step1
    /\ obs[p].stored.month = obs[p].current_month
    /\ obs[p].stored.count = MAX_CALLS_PER_MONTH
    /\ obs[p].reason = "monthly_limit"
    /\ is_business_hours(Now)
    /\ obs[p].t0 = clock

\* C2: the persisted count stays within 0..MAX_CALLS_PER_MONTH in every
\* reachable state.
C2_CountWithinBudget ==
  (file.kind = "record" /\ file.count # MissingCount)
    => (0 <= file.count /\ file.count <= MAX_CALLS_PER_MONTH)

\* an increment has brought the count to the cap
C2_Witness ==
  \E p \in Procs :
    /\ Wrote(p, "increment")
    /\ file.kind = "record"
    /\ file.count = MAX_CALLS_PER_MONTH

\* C3: the count rises only in an invocation that reached ACCEPT and whose
\* POST was answered with a success (2xx) status, so that between
\* invocations the count is the number of such POSTs since the last reset.
C3_CountIsSuccessfulPosts ==
  /\ \A p \in Procs :
       Wrote(p, "increment") => (obs[p].outcome = "ACCEPT" /\ Is2xx(obs[p].response))
  /\ ((\A p \in Procs : ~Running(p)) /\ file.kind = "record"
        /\ file.count # MissingCount /\ base # MissingCount)
       => file.count = base + posted

\* C4: step 1 writes the reset record {month: current, count: 0} if and
\* only if the stored month token differs from the current one, and no
\* month token is ever reset twice.
C4_ResetIffMonthDiffers ==
  /\ \A p \in Procs :
       obs[p].step1 =>
         IF obs[p].stored.month # obs[p].current_month
         THEN /\ obs[p].afterStep1 =
                   Record(obs[p].current_month, 0, obs[p].stored.last_call)
              /\ obs[p].writes # <<>>
              /\ obs[p].writes[1] = "reset"
         ELSE /\ obs[p].afterStep1 = obs[p].atStart
              /\ ~Wrote(p, "reset")
  /\ \A i, j \in DOMAIN resets : resets[i] = resets[j] => i = j

\* a second invocation of a month whose reset an earlier one has written
C4_Witness ==
  \E p \in Procs :
    /\ runs >= 2
    /\ obs[p].step1
    /\ ~Wrote(p, "reset")
    /\ resets = <<obs[p].current_month>>
    /\ file.count = 1

\* C5: a REJECT ends the invocation with no POST, no jitter wait, and the
\* file as step 1 left it; count and last_call are not touched.
C5_RejectHasNoSideEffect ==
  \A p \in Procs :
    obs[p].outcome = "REJECT" =>
      /\ loc[p].pc = "done"
      /\ obs[p].posts = 0
      /\ ~obs[p].waited
      /\ obs[p].call = "none"
      /\ file = obs[p].afterStep1
      /\ ~Wrote(p, "increment")
      /\ file.last_call = obs[p].stored.last_call
      /\ (~Wrote(p, "reset") => file = obs[p].atStart)

\* a REJECT at the last gate, after a month reset
C5_Witness ==
  \E p \in Procs :
    /\ obs[p].reason = "execution_skip"
    /\ obs[p].writes = <<"reset">>
    /\ file = obs[p].afterStep1
    /\ obs[p].posts = 0

\* C6: the checks run in the order budget, vacation, business hours, day
\* skip, hour skip, final draw, each at most once; nothing is evaluated
\* after a failing check, whose reason is the REJECT reason; ACCEPT is
\* given exactly when all six passed.
C6_FixedOrderFirstFailure ==
  \A p \in Procs :
    LET t == obs[p].trace
        n == Len(t)
    IN  /\ n <= Len(CheckOrder)
        /\ \A i \in 1..n : t[i][1] = CheckOrder[i]
        /\ \A i \in 1..(n - 1) : t[i][2]
        /\ obs[p].outcome = "REJECT" <=> (n > 0 /\ ~t[n][2])
        /\ obs[p].outcome = "REJECT" => obs[p].reason = ReasonOf(t[n][1])
        /\ obs[p].outcome = "ACCEPT" <=> (n = Len(CheckOrder) /\ t[n][2])
        /\ obs[p].outcome = "none" => obs[p].reason = "none"

\* a REJECT at the fifth check, the four before it passed
C6_Witness ==
  \E p \in Procs :
    /\ obs[p].outcome = "REJECT"
    /\ obs[p].reason = "hour_skip"
    /\ Len(obs[p].trace) = 5

\* C7 as stated: on a Saturday the outcome is always REJECT with the
\* outside-business-hours reason, whatever the other gates say.
C7_SaturdayAlwaysOutsideHours ==
  \A p \in Procs :
    (SaturdayRun(p) /\ obs[p].outcome # "none")
      => (obs[p].outcome = "REJECT" /\ obs[p].reason = "outside_business_hours")

\* C7 amended: on a Saturday the outcome is always REJECT; the reason is
\* the monthly-limit one when the budget is exhausted, else the vacation
\* one when the vacation check fails, else outside-business-hours.
C7_SaturdayRejects ==
  \A p \in Procs :
    (SaturdayRun(p) /\ obs[p].outcome # "none")
      => /\ obs[p].outcome = "REJECT"
         /\ obs[p].reason = "monthly_limit"
              <=> budget_exhausted(obs[p].afterStep1.count)
         /\ obs[p].reason \in {"monthly_limit", "vacation", "outside_business_hours"}
         /\ Len(obs[p].trace) = 3 <=> obs[p].reason = "outside_business_hours"

\* a Saturday outside August rejected at the business-hours check
C7_Witness ==
  \E p \in Procs :
    /\ SaturdayRun(p)
    /\ Now.month # 8
    /\ obs[p].reason = "outside_business_hours"

\* C8: a POST that failed (timeout, connection failure, non-2xx status)
\* leaves the file as it was before the call, and an invocation issues at
\* most one POST.
C8_FailedPostLeavesLogUnchanged ==
  \A p \in Procs :
    /\ obs[p].posts <= 1
    /\ (~Running(p) /\ obs[p].posts = 1 /\ ~Is2xx(obs[p].response))
         => file = obs[p].beforeCall

\* C9: an ACCEPT without the URL setting ends the invocation normally,
\* before the jitter wait, with no POST and the file as step 1 left it.
C9_MissingUrlAborts ==
  \A p \in Procs :
    (obs[p].outcome = "ACCEPT" /\ ~obs[p].url /\ loc[p].pc # "cw_url")
      => /\ loc[p].pc = "done"
         /\ obs[p].call = "no_url"
         /\ obs[p].posts = 0
         /\ ~obs[p].waited
         /\ file = obs[p].afterStep1
         /\ ~Wrote(p, "increment")

\* an accepted invocation that ended on the missing URL
C9_Witness ==
  \E p \in Procs :
    /\ obs[p].outcome = "ACCEPT"
    /\ ~obs[p].url
    /\ obs[p].call = "no_url"
    /\ loc[p].pc = "done"

\* C10: an invocation that finds an unparseable record ends on the
\* uncaught error of its first load: the record is not taken for the
\* default one, the file is not written and no POST is issued.
C10_CorruptRecordPropagates ==
  \A p \in Procs :
    (Unparseable(obs[p].atStart) /\ loc[p].pc # "main_load")
      => /\ loc[p].pc = "crashed"
         /\ file = obs[p].atStart
         /\ ~obs[p].step1
         /\ obs[p].writes = <<>>
         /\ obs[p].outcome = "none"
         /\ obs[p].posts = 0

\* an invocation crashed on the corrupt file, which is still there
C10_Witness ==
  \E p \in Procs :
    /\ obs[p].atStart = Corrupt
    /\ loc[p].pc = "crashed"
    /\ file = Corrupt

\* C11: every parseable record is accepted: a missing month, count or
\* last_call field is taken for its default, so the invocation that finds
\* such a record does not end on an error.
C11_MissingFieldsDefaulted ==
  \A p \in Procs :
    (/\ obs[p].atStart.kind = "record"
     /\ \/ obs[p].atStart.month = MissingMonth
        \/ obs[p].atStart.count = MissingCount)
      => loc[p].pc # "crashed"

\* the invocation of slot p started on a weekday at mid-morning, outside
\* August and the Christmas window, and the clock has not moved since
MidMorningRun(p) ==
  /\ obs[p].t0 = clock
  /\ Weekday(Now) < 5
  /\ Now.hour \in {10, 11}
  /\ ~fixed_vacation(Now)

StochasticReasons == {"vacation", "day_skip", "hour_skip", "execution_skip"}

C13_KillLeavesCompleteRecord ==
  \A p \in Procs :
    (loc[p].pc = "killed" /\ ~Unparseable(obs[p].atStart))
      => /\ ~Unparseable(file)
         /\ load_call_log(file).ok

\* the calls of is_vacation_period made by the invocations of the slots:
\* the clock each one read and what it returned
VacationCalls ==
  {[at |-> Instants[obs[p].trace[2][3]], result |-> ~obs[p].trace[2][2]] :
     p \in {q \in Procs : Len(obs[q].trace) >= 2}}

\* C14: any two calls of is_vacation_period made at times with the same
\* (year, ISO week) return the same boolean.
C14_VacationStableWithinWeek ==
  \A a, b \in VacationCalls :
    (a.at.year = b.at.year /\ IsoWeek(a.at) = IsoWeek(b.at))
      => a.result = b.result

\* the clock read by the business-hours check of an accepted invocation
BusinessHoursRead(p) == Instants[obs[p].trace[3][3]]

\* C15: is_business_hours is false at every hour of Saturday and Sunday and,
\* from Monday to Friday, true exactly at the hours 9..16 (checked on the
\* week of Monday 2024-05-06, every day and hour); hence the business-hours
\* check of every accepted invocation read a time within Monday-Friday
\* 09:00-16:59.
C15_BusinessHoursGate ==
  /\ \A day \in 6..12, h \in 0..23 :
       is_business_hours(Instant(2024, 5, day, h))
         <=> (day <= 10 /\ BUSINESS_START <= h /\ h < BUSINESS_END)
  /\ \A p \in Procs :
       obs[p].outcome = "ACCEPT" =>
         /\ Weekday(BusinessHoursRead(p)) \in 0..4
         /\ BusinessHoursRead(p).hour \in 9..16

\* an ACCEPT in the last business hour of a Monday
C15_Witness ==
  \E p \in Procs :
    /\ obs[p].outcome = "ACCEPT"
    /\ Weekday(BusinessHoursRead(p)) = 0
    /\ BusinessHoursRead(p).hour = BUSINESS_END - 1

\* C16: whatever the draws, the delay computed by add_human_jitter is
\* between 0 and 900 seconds: within 0..60 in the quick branch, at most 600
\* in the typical branch, within 300..900 in the slow branch.
C16_JitterWithinBounds ==
  /\ \A p \in Procs :
       obs[p].jitter # NoJitter => (0 <= obs[p].jitter /\ obs[p].jitter <= 900)
  /\ \A u1, u2, u3 \in UnitSamples :
       LET jitter == human_jitter(u1, u2, u3)
       IN  IF u1 < 1500 THEN 0 <= jitter /\ jitter <= 60
           ELSE IF u2 < 7000 THEN 0 <= jitter /\ jitter <= 600
           ELSE 300 <= jitter /\ jitter <= 900

\* the typical branch drew an exponential value above the cap
C16_Witness ==
  \E p \in Procs : loc[p].pc = "cw_sleep" /\ loc[p].jitter = 600

Decided(p) ==
  /\ obs[p].outcome # "none"
  /\ \A i \in DOMAIN obs[p].trace : obs[p].trace[i][3] = obs[p].t0

\* two invocations at the same year, ISO week, weekday and hour
SameWeekdayAndHour(p, q) ==
  LET a == Instants[obs[p].t0]
      b == Instants[obs[q].t0]
  IN  /\ a.year = b.year
      /\ IsoWeek(a) = IsoWeek(b)
      /\ Weekday(a) = Weekday(b)
      /\ a.hour = b.hour

\* the budget state the checks of an invocation start from
BudgetState(p) == budget_exhausted(obs[p].afterStep1.count)

Incrementing(p) == loc[p].pc \in {"cw_save_open", "cw_save_dump"}

\* C19: call_webhook leaves the stored month token as it is, and the record
\* it writes with the incremented count carries the month token of the
\* calendar month at the time of the write.
C19_IncrementCreditsCurrentMonth ==
  \A p \in Procs :
    /\ Incrementing(p)
         => /\ loc[p].log.month = get_current_month(Now)
            /\ loc[p].log.month = obs[p].beforeCall.month
    /\ Wrote(p, "increment") => file.month = obs[p].beforeCall.month

\* the hour changed between the decision and the increment
C19_Witness ==
  \E p \in Procs :
    /\ Incrementing(p)
    /\ obs[p].t0 # clock
    /\ loc[p].log.month = get_current_month(Now)

\* C20: with overlapping invocations, between invocations the persisted
\* count is the count at the last reset plus one for every POST that was
\* let through since (no lost update), and it never exceeds
\* MAX_CALLS_PER_MONTH.
C20_OverlapKeepsAccounting ==
  ((\A p \in Procs : ~Running(p)) /\ file.kind = "record"
     /\ file.count # MissingCount /\ base # MissingCount)
    => /\ file.count <= MAX_CALLS_PER_MONTH
       /\ \A p, q \in Procs :
            (/\ p # q
             /\ Wrote(p, "increment") /\ Wrote(q, "increment")
             /\ ~Wrote(p, "reset") /\ ~Wrote(q, "reset")
             /\ obs[p].atStart = obs[q].atStart)
              => file.count = obs[p].atStart.count + 2

====
